---- MODULE Spec2Model ----
(***************************************************************************)
(* Model of scripts/validate-coderabbit.py: one run of main(), which       *)
(* resolves the file path, calls validate_coderabbit_yaml and reports the  *)
(* returned error list through the process exit code.                      *)
(*                                                                         *)
(* Parsed YAML values are tagged records whose tag is the Python type      *)
(* name: Str, Dict, List and the scalars int, float, bool, NoneType.       *)
(* Strings are TLA+ strings, so len() is Len and the substring test of     *)
(* `in` is computed with SubSeq.                                           *)
(***************************************************************************)
EXTENDS Integers, Sequences, FiniteSets, TLC

VARIABLES argv, fs, doc, pc, filepath, config, reviews, instructions, i,
          errors, j, out, exitCode, raised

vars == <<argv, fs, doc, pc, filepath, config, reviews, instructions, i,
          errors, j, out, exitCode, raised>>

(***************************************************************************)
(* Bounds of the model.                                                    *)
(***************************************************************************)
\* longest labeling_instructions sequence explored
MaxElems == 2

(***************************************************************************)
(* Program constants.                                                      *)
(***************************************************************************)
\* line 62: len(instruction['instructions']) > 3000
InstructionsLimit == 3000

\* line 80: the default file name
DefaultPath == ".coderabbit.yaml"

\* the working directory os.path.abspath resolves relative paths against
Cwd == "/repo"

(***************************************************************************)
(* Python values.                                                          *)
(***************************************************************************)
Str(s) == [t |-> "str", s |-> s]

Dict(d) == [t |-> "dict", d |-> d]

List(items) == [t |-> "list", items |-> items]

Scalar(t) == [t |-> t]

\* a local variable that has not been assigned yet
Unset == [t |-> "unset"]

EmptyMap == [k \in {} |-> Unset]

\* isinstance(v, cls) for the exact classes yaml.safe_load produces
isinstance(v, cls) == v.t = cls

\* type(v).__name__
TypeName(v) == v.t

RECURSIVE Rep(_, _)
\* s * n
Rep(s, n) ==
    IF n = 0 THEN ""
    ELSE IF n % 2 = 1 THEN s \o Rep(s, n - 1)
    ELSE LET h == Rep(s, n \div 2) IN h \o h

\* needle in haystack, for two str
SubstringOf(needle, haystack) ==
    \E p \in 1..(Len(haystack) - Len(needle) + 1) :
        SubSeq(haystack, p, p + Len(needle) - 1) = needle

\* variant: every container that is not a dict raises
InRaises_nonDict(container) == container.t # "dict"

\* `key in container` raises TypeError when the container is not iterable
\* (int, float, bool, None)
InRaises(container) == container.t \notin {"dict", "list", "str"}

\* `key in container` for a str key: key lookup on a dict, element equality
\* on a list, substring test on a str
PyIn(key, container) ==
    CASE container.t = "dict" -> key \in DOMAIN container.d
      [] container.t = "list" ->
            \E p \in 1..Len(container.items) : container.items[p] = Str(key)
      [] container.t = "str" -> SubstringOf(key, container.s)
      [] OTHER -> FALSE

\* container[key] for a str key raises TypeError unless container is a dict
GetItemRaises(container) == container.t # "dict"

\* container[key] on a dict that holds key
GetItem(container, key) == container.d[key]

(***************************************************************************)
(* os.path.abspath, lines 84-85.                                           *)
(***************************************************************************)
abspath(p) ==
    IF Len(p) > 0 /\ SubSeq(p, 1, 1) = "/" THEN p ELSE Cwd \o "/" \o p

(***************************************************************************)
(* Error messages of validate_coderabbit_yaml.                             *)
(***************************************************************************)
\* variant: the path carries the one-based position
Path_oneBased(n) ==
    "\"reviews.labeling_instructions[" \o ToString(n + 1) \o "]\""

\* the f-string fragment \"reviews.labeling_instructions[{i}]\"
Path(n) == "\"reviews.labeling_instructions[" \o ToString(n) \o "]\""

\* variant: only the presence of label is checked
LabelErrors_presenceOnly(n, instruction) ==
    IF ~PyIn("label", instruction)
    THEN <<"Missing 'label' field at " \o Path(n)>>
    ELSE <<>>

\* lines 45-52
LabelErrors(n, instruction) ==
    IF ~PyIn("label", instruction)
    THEN <<"Missing 'label' field at " \o Path(n)>>
    ELSE IF ~isinstance(GetItem(instruction, "label"), "str")
    THEN <<"'label' must be a string at " \o Path(n)>>
    ELSE <<>>

\* variant: the bound is inclusive
TooLong_inclusive(s) == Len(s) >= InstructionsLimit

\* line 62
TooLong(s) == Len(s) > InstructionsLimit

\* lines 54-65
InstructionsErrors(n, instruction) ==
    IF ~PyIn("instructions", instruction)
    THEN <<"Missing 'instructions' field at " \o Path(n)>>
    ELSE IF ~isinstance(GetItem(instruction, "instructions"), "str")
    THEN <<"'instructions' must be a string at " \o Path(n)>>
    ELSE IF TooLong(GetItem(instruction, "instructions").s)
    THEN <<"'instructions' exceeds 3000 character limit at " \o Path(n)>>
    ELSE <<>>

\* variant: the instructions check is chained to the label check with elif
ElementErrors_elif(n, instruction) ==
    IF isinstance(instruction, "str")
    THEN <<"Expected object, received string at " \o Path(n)>>
    ELSE IF isinstance(instruction, "dict")
    THEN IF LabelErrors(n, instruction) # <<>>
         THEN LabelErrors(n, instruction)
         ELSE InstructionsErrors(n, instruction)
    ELSE <<"Invalid type at " \o Path(n) \o ": expected object, got "
            \o TypeName(instruction)>>

\* variant: everything that is not a dict is reported as a string
ElementErrors_nonDictAsString(n, instruction) ==
    IF ~isinstance(instruction, "dict")
    THEN <<"Expected object, received string at " \o Path(n)>>
    ELSE LabelErrors(n, instruction) \o InstructionsErrors(n, instruction)

\* lines 39-70: the body of the for loop for one element
ElementErrors(n, instruction) ==
    IF isinstance(instruction, "str")
    THEN <<"Expected object, received string at " \o Path(n)>>
    ELSE IF isinstance(instruction, "dict")
    THEN LabelErrors(n, instruction) \o InstructionsErrors(n, instruction)
    ELSE <<"Invalid type at " \o Path(n) \o ": expected object, got "
            \o TypeName(instruction)>>

(***************************************************************************)
(* The inputs: command lines, file system outcomes and parsed documents.   *)
(***************************************************************************)
\* sys.argv: without and with the positional argument
DefaultArgv == <<"validate-coderabbit.py">>

Argvs == {DefaultArgv,
          <<"validate-coderabbit.py", "cfg.yaml">>,
          <<"validate-coderabbit.py", "/etc/cfg.yaml">>}

\* what open() and yaml.safe_load do with the file: it parses, it does not
\* exist, it is not valid YAML, or open() fails with another OSError
FileStates == {"ok", "missing", "malformed", "unreadable"}

\* str(e) of the yaml.YAMLError
YamlProblem == "mapping values are not allowed here"

AtLimit == Rep("x", InstructionsLimit)

OverLimit == Rep("x", InstructionsLimit + 1)

LabelValues == {Str("bug"), Scalar("int")}

InstructionsValues == {Str("x"), Str(AtLimit), Str(OverLimit), Scalar("int")}

\* the mapping elements: each field absent or present with one of its values
DictElems ==
    {Dict(EmptyMap)}
    \cup {Dict([label |-> l]) : l \in LabelValues}
    \cup {Dict([instructions |-> n]) : n \in InstructionsValues}
    \cup {Dict([label |-> l, instructions |-> n]) :
            l \in LabelValues, n \in InstructionsValues}
    \cup {Dict([label |-> Str("bug"), instructions |-> Str("")]),
          Dict([label |-> Str("bug"), instructions |-> Str("x"),
                color |-> Str("red")]),
          Dict([color |-> Str("red")])}

Elems ==
    DictElems
    \cup {Str("bug"), Scalar("int"), Scalar("bool"), Scalar("NoneType"),
          List(<<>>)}

ElemLists == UNION {[1..n -> Elems] : n \in 0..MaxElems}

\* values of reviews.labeling_instructions
LabelingValues ==
    {List(l) : l \in ElemLists}
    \cup {Str("bug"), Scalar("int"), Scalar("float"), Scalar("NoneType"),
          Dict(EmptyMap), Dict([label |-> Str("bug"), instructions |-> Str("x")])}

AutoReview == Dict([enabled |-> Scalar("bool")])

\* values of the root's reviews key
ReviewsValues ==
    {Dict(EmptyMap), Dict([auto_review |-> AutoReview])}
    \cup {Dict([labeling_instructions |-> l]) : l \in LabelingValues}
    \cup {Dict([labeling_instructions |-> l, auto_review |-> AutoReview]) :
            l \in LabelingValues}
    \cup {Str("oops"), Str("see labeling_instructions"), Scalar("int"),
          Scalar("bool"), Scalar("NoneType"), List(<<>>),
          List(<<Str("labeling_instructions")>>), List(<<Str("bug")>>)}

\* reviews values that are also explored under a root with a second key
SmallReviewsValues ==
    {r \in ReviewsValues :
        r.t = "dict" /\ "labeling_instructions" \in DOMAIN r.d
        => (r.d.labeling_instructions.t = "list"
            => Len(r.d.labeling_instructions.items) <= 1)}

\* what yaml.safe_load returns
Docs ==
    {Dict([reviews |-> r]) : r \in ReviewsValues}
    \cup {Dict([reviews |-> r, language |-> Str("en-US")]) :
            r \in SmallReviewsValues}
    \cup {Dict(EmptyMap), Dict([language |-> Str("en-US")]),
          Dict([labeling_instructions |-> List(<<Str("bug")>>)]),
          Dict([labeling_instructions |-> Str("bug")])}
    \cup {Scalar("NoneType"), Scalar("int"), Scalar("bool"),
          Str("oops"), Str("reviews"), Str("no reviews here"),
          List(<<>>), List(<<Str("reviews")>>), List(<<Str("bug")>>)}

\* the documents explored with the default command line only
LargeDocs ==
    {Dict([reviews |-> r]) : r \in ReviewsValues \ SmallReviewsValues}

(***************************************************************************)
(* The run.  pc is the position in main and validate_coderabbit_yaml.      *)
(***************************************************************************)
Init ==
    /\ fs \in FileStates
    /\ IF fs = "ok" THEN doc \in Docs ELSE doc = Unset
    /\ argv \in IF doc \in LargeDocs THEN {DefaultArgv} ELSE Argvs
    /\ pc = "main"
    /\ filepath = ""
    /\ config = Unset
    /\ reviews = Unset
    /\ instructions = Unset
    /\ i = 0
    /\ errors = <<>>
    /\ j = 0
    /\ out = <<>>
    /\ exitCode = -1
    /\ raised = "none"

\* an exception nothing catches leaves main: the interpreter writes the
\* traceback to stderr and the process ends with status 1
Unhandled(exc) ==
    /\ raised' = exc
    /\ exitCode' = 1
    /\ pc' = "exit"

\* main, lines 79-87
Start ==
    /\ pc = "main"
    /\ LET path == IF Len(argv) < 2 THEN DefaultPath ELSE argv[2]
       IN /\ filepath' = abspath(path)
          /\ out' = Append(out, "Validating CodeRabbit configuration: "
                                 \o abspath(path))
    /\ pc' = "load"
    /\ UNCHANGED <<argv, fs, doc, config, reviews, instructions, i, errors,
                   j, exitCode, raised>>

\* validate_coderabbit_yaml, lines 13-21
Load ==
    /\ pc = "load"
    /\ CASE fs = "ok" ->
              /\ config' = doc
              /\ pc' = "check_reviews"
              /\ UNCHANGED <<errors, exitCode, raised>>
         [] fs = "malformed" ->
              /\ errors' = <<"YAML syntax error: " \o YamlProblem>>
              /\ pc' = "report"
              /\ UNCHANGED <<config, exitCode, raised>>
         [] fs = "missing" ->
              /\ errors' = <<"File not found: " \o filepath>>
              /\ pc' = "report"
              /\ UNCHANGED <<config, exitCode, raised>>
         [] OTHER ->
              /\ Unhandled("OSError")
              /\ UNCHANGED <<config, errors>>
    /\ UNCHANGED <<argv, fs, doc, filepath, reviews, instructions, i, j, out>>

\* variant: the missing section is reported but the function goes on and
\* looks for labeling_instructions in the root
CheckReviews_fallthrough ==
    /\ pc = "check_reviews"
    /\ IF InRaises(config)
       THEN /\ Unhandled("TypeError")
            /\ UNCHANGED <<errors, reviews>>
       ELSE IF ~PyIn("reviews", config)
       THEN /\ errors' = Append(errors, "Missing 'reviews' section")
            /\ reviews' = config
            /\ pc' = "check_labeling"
            /\ UNCHANGED <<exitCode, raised>>
       ELSE IF GetItemRaises(config)
       THEN /\ Unhandled("TypeError")
            /\ UNCHANGED <<errors, reviews>>
       ELSE /\ reviews' = GetItem(config, "reviews")
            /\ pc' = "check_labeling"
            /\ UNCHANGED <<errors, exitCode, raised>>
    /\ UNCHANGED <<argv, fs, doc, filepath, config, instructions, i, j, out>>

\* validate_coderabbit_yaml, lines 23-28
CheckReviews ==
    /\ pc = "check_reviews"
    /\ IF InRaises(config)
       THEN /\ Unhandled("TypeError")
            /\ UNCHANGED <<errors, reviews>>
       ELSE IF ~PyIn("reviews", config)
       THEN /\ errors' = Append(errors, "Missing 'reviews' section")
            /\ pc' = "report"
            /\ UNCHANGED <<reviews, exitCode, raised>>
       ELSE IF GetItemRaises(config)
       THEN /\ Unhandled("TypeError")
            /\ UNCHANGED <<errors, reviews>>
       ELSE /\ reviews' = GetItem(config, "reviews")
            /\ pc' = "check_labeling"
            /\ UNCHANGED <<errors, exitCode, raised>>
    /\ UNCHANGED <<argv, fs, doc, filepath, config, instructions, i, j, out>>

\* variant: labeling_instructions is read with a None default, so an absent
\* key is reported as not being a list
CheckLabeling_required ==
    /\ pc = "check_labeling"
    /\ IF InRaises(reviews)
       THEN /\ Unhandled("TypeError")
            /\ UNCHANGED <<errors, instructions>>
       ELSE IF GetItemRaises(reviews)
       THEN /\ Unhandled("TypeError")
            /\ UNCHANGED <<errors, instructions>>
       ELSE /\ instructions' =
                   IF PyIn("labeling_instructions", reviews)
                   THEN GetItem(reviews, "labeling_instructions")
                   ELSE Scalar("NoneType")
            /\ IF ~isinstance(instructions', "list")
               THEN /\ errors' = Append(errors,
                          "'reviews.labeling_instructions' must be a list")
                    /\ pc' = "report"
               ELSE /\ pc' = "loop"
                    /\ UNCHANGED errors
            /\ UNCHANGED <<exitCode, raised>>
    /\ UNCHANGED <<argv, fs, doc, filepath, config, reviews, i, j, out>>

\* validate_coderabbit_yaml, lines 30-37
CheckLabeling ==
    /\ pc = "check_labeling"
    /\ IF InRaises(reviews)
       THEN /\ Unhandled("TypeError")
            /\ UNCHANGED <<errors, instructions>>
       ELSE IF ~PyIn("labeling_instructions", reviews)
       THEN /\ pc' = "report"
            /\ UNCHANGED <<errors, instructions, exitCode, raised>>
       ELSE IF GetItemRaises(reviews)
       THEN /\ Unhandled("TypeError")
            /\ UNCHANGED <<errors, instructions>>
       ELSE /\ instructions' = GetItem(reviews, "labeling_instructions")
            /\ IF ~isinstance(instructions', "list")
               THEN /\ errors' = Append(errors,
                          "'reviews.labeling_instructions' must be a list")
                    /\ pc' = "report"
               ELSE /\ pc' = "loop"
                    /\ UNCHANGED errors
            /\ UNCHANGED <<exitCode, raised>>
    /\ UNCHANGED <<argv, fs, doc, filepath, config, reviews, i, j, out>>

\* variant: the loop stops at the first element that has an error
LoopStep_break ==
    /\ pc = "loop"
    /\ i < Len(instructions.items)
    /\ errors' = errors \o ElementErrors(i, instructions.items[i + 1])
    /\ i' = IF ElementErrors(i, instructions.items[i + 1]) # <<>>
            THEN Len(instructions.items)
            ELSE i + 1
    /\ UNCHANGED <<argv, fs, doc, pc, filepath, config, reviews,
                   instructions, j, out, exitCode, raised>>

\* one iteration of the for loop, lines 37-70
LoopStep ==
    /\ pc = "loop"
    /\ i < Len(instructions.items)
    /\ errors' = errors \o ElementErrors(i, instructions.items[i + 1])
    /\ i' = i + 1
    /\ UNCHANGED <<argv, fs, doc, pc, filepath, config, reviews,
                   instructions, j, out, exitCode, raised>>

\* the loop is exhausted and the function returns, line 75
Return ==
    /\ pc = "loop"
    /\ i = Len(instructions.items)
    /\ pc' = "report"
    /\ UNCHANGED <<argv, fs, doc, filepath, config, reviews, instructions,
                   i, errors, j, out, exitCode, raised>>

\* main, lines 91-92 and 96-98 (the emoji of the two banners are left out)
Report ==
    /\ pc = "report"
    /\ IF errors # <<>>
       THEN /\ out' = Append(out,
                        "\nValidation failed with the following errors:")
            /\ pc' = "print"
            /\ UNCHANGED exitCode
       ELSE /\ out' = Append(out, "CodeRabbit YAML configuration is valid")
            /\ exitCode' = 0
            /\ pc' = "exit"
    /\ UNCHANGED <<argv, fs, doc, filepath, config, reviews, instructions,
                   i, errors, j, raised>>

\* main, lines 93-94
PrintError ==
    /\ pc = "print"
    /\ j < Len(errors)
    /\ out' = Append(out, "  - " \o errors[j + 1])
    /\ j' = j + 1
    /\ UNCHANGED <<argv, fs, doc, pc, filepath, config, reviews,
                   instructions, i, errors, exitCode, raised>>

\* variant: the failure branch exits with status 0
ExitFailure_zero ==
    /\ pc = "print"
    /\ j = Len(errors)
    /\ exitCode' = 0
    /\ pc' = "exit"
    /\ UNCHANGED <<argv, fs, doc, filepath, config, reviews, instructions,
                   i, errors, j, out, raised>>

\* main, line 95
ExitFailure ==
    /\ pc = "print"
    /\ j = Len(errors)
    /\ exitCode' = 1
    /\ pc' = "exit"
    /\ UNCHANGED <<argv, fs, doc, filepath, config, reviews, instructions,
                   i, errors, j, out, raised>>

Next ==
    \/ Start
    \/ Load
    \/ CheckReviews
    \/ CheckLabeling
    \/ LoopStep
    \/ Return
    \/ Report
    \/ PrintError
    \/ ExitFailure

Spec == Init /\ [][Next]_vars

TypeOK ==
    /\ pc \in {"main", "load", "check_reviews", "check_labeling", "loop",
               "report", "print", "exit"}
    /\ exitCode \in {-1, 0, 1}
    /\ i \in 0..(MaxElems + 1)
    /\ j \in 0..(2 * (MaxElems + 1))

(***************************************************************************)
(* Vocabulary of the properties.  The properties speak about the document  *)
(* that was loaded (doc) and about the error list once the validator is    *)
(* over; they spell the expected messages out instead of using the         *)
(* operators of the model.                                                 *)
(***************************************************************************)
\* validate_coderabbit_yaml is over: it returned or an exception left it
Finished == pc \in {"report", "print", "exit"}

RootIsMap == fs = "ok" /\ doc.t = "dict"

HasReviews == RootIsMap /\ "reviews" \in DOMAIN doc.d

ReviewsIsMap == HasReviews /\ doc.d.reviews.t = "dict"

HasLabeling == ReviewsIsMap /\ "labeling_instructions" \in DOMAIN doc.d.reviews.d

Labeling == doc.d.reviews.d.labeling_instructions

LabelingIsSeq == HasLabeling /\ Labeling.t = "list"

Items == Labeling.items

StartsWith(e, p) == Len(e) >= Len(p) /\ SubSeq(e, 1, Len(p)) = p

EndsWith(e, p) == Len(e) >= Len(p) /\ SubSeq(e, Len(e) - Len(p) + 1, Len(e)) = p

\* the quoted path of the element at zero-based index k
PathText(k) ==
    CASE k = 0 -> "\"reviews.labeling_instructions[0]\""
      [] k = 1 -> "\"reviews.labeling_instructions[1]\""
      [] k = 2 -> "\"reviews.labeling_instructions[2]\""
      [] k = 3 -> "\"reviews.labeling_instructions[3]\""

\* the message e is about the element at index k
IsAt(e, k) ==
    \/ EndsWith(e, " at " \o PathText(k))
    \/ StartsWith(e, "Invalid type at " \o PathText(k) \o ": ")

\* the errors of the returned list that are about the element at index k
ErrorsAt(k) == SelectSeq(errors, LAMBDA e : IsAt(e, k))

IsLabelError(e) ==
    \/ StartsWith(e, "Missing 'label' field")
    \/ StartsWith(e, "'label' must be a string")

IsInstructionsError(e) ==
    \/ StartsWith(e, "Missing 'instructions' field")
    \/ StartsWith(e, "'instructions' must be a string")
    \/ StartsWith(e, "'instructions' exceeds 3000 character limit")

LabelErrorsAt(k) == SelectSeq(ErrorsAt(k), IsLabelError)

InstructionsErrorsAt(k) == SelectSeq(ErrorsAt(k), IsInstructionsError)

(***************************************************************************)
(* C1                                                                      *)
(***************************************************************************)
\* C1: when the root mapping has no reviews key, the validator returns the
\* one-element list "Missing 'reviews' section" whatever else the root holds,
\* and labeling_instructions is never looked at.
C1_MissingReviews ==
    (RootIsMap /\ "reviews" \notin DOMAIN doc.d
       /\ pc \notin {"main", "load", "check_reviews"})
    => /\ Finished
       /\ raised = "none"
       /\ errors = <<"Missing 'reviews' section">>
       /\ instructions = Unset

C1_Witness ==
    /\ RootIsMap
    /\ "reviews" \notin DOMAIN doc.d
    /\ "labeling_instructions" \in DOMAIN doc.d
    /\ pc = "exit"
    /\ errors = <<"Missing 'reviews' section">>

(***************************************************************************)
(* C2                                                                      *)
(***************************************************************************)
\* C2: when reviews is a mapping, a labeling_instructions value that is not
\* a sequence gives exactly the one error "'reviews.labeling_instructions'
\* must be a list", and an absent labeling_instructions gives no error.
C2_MustBeAList ==
    (ReviewsIsMap /\ Finished)
    => /\ raised = "none"
       /\ (HasLabeling /\ Labeling.t # "list")
            => errors = <<"'reviews.labeling_instructions' must be a list">>
       /\ ~HasLabeling => errors = <<>>

C2_Witness ==
    /\ HasLabeling
    /\ Labeling.t = "NoneType"
    /\ pc = "exit"
    /\ errors = <<"'reviews.labeling_instructions' must be a list">>

(***************************************************************************)
(* C3                                                                      *)
(***************************************************************************)
\* C3: a string element at zero-based index k gives exactly one error about
\* that element, "Expected object, received string" at the path with index
\* k, and no field-level error.
C3_StringElement ==
    (LabelingIsSeq /\ Finished)
    => \A k \in 1..Len(Items) :
         Items[k].t = "str"
         => ErrorsAt(k - 1) =
              <<"Expected object, received string at " \o PathText(k - 1)>>

C3_Witness ==
    /\ LabelingIsSeq
    /\ pc = "exit"
    /\ Len(Items) = 2
    /\ Items[1].t = "dict"
    /\ Items[2].t = "str"
    /\ ErrorsAt(1) =
         <<"Expected object, received string at \"reviews.labeling_instructions[1]\"">>

(***************************************************************************)
(* C4                                                                      *)
(***************************************************************************)
\* C4: for a mapping element the label check and the instructions check both
\* run: each gives at most one error, missing before wrong type, and the
\* label error comes before the instructions error.
C4_BothFieldChecks ==
    (LabelingIsSeq /\ Finished)
    => \A k \in 1..Len(Items) :
         Items[k].t = "dict"
         => LET e == Items[k].d
                at == " at " \o PathText(k - 1)
                lab == LabelErrorsAt(k - 1)
                ins == InstructionsErrorsAt(k - 1)
            IN /\ ErrorsAt(k - 1) = lab \o ins
               /\ Len(lab) <= 1
               /\ Len(ins) <= 1
               /\ "label" \notin DOMAIN e
                    => lab = <<"Missing 'label' field" \o at>>
               /\ ("label" \in DOMAIN e /\ e.label.t # "str")
                    => lab = <<"'label' must be a string" \o at>>
               /\ ("label" \in DOMAIN e /\ e.label.t = "str") => lab = <<>>
               /\ "instructions" \notin DOMAIN e
                    => ins = <<"Missing 'instructions' field" \o at>>
               /\ ("instructions" \in DOMAIN e /\ e.instructions.t # "str")
                    => ins = <<"'instructions' must be a string" \o at>>

C4_Witness ==
    /\ LabelingIsSeq
    /\ pc = "exit"
    /\ Items = <<Dict([instructions |-> Scalar("int")])>>
    /\ errors =
         <<"Missing 'label' field at \"reviews.labeling_instructions[0]\"",
           "'instructions' must be a string at \"reviews.labeling_instructions[0]\"">>

(***************************************************************************)
(* C5                                                                      *)
(***************************************************************************)
\* C5: the instructions checks of a mapping element are exclusive, in the
\* order missing, wrong type, too long; a string of 3001 characters gives
\* the character-limit error alone and one of 3000 or fewer gives none.
C5_InstructionsPriority ==
    (LabelingIsSeq /\ Finished)
    => \A k \in 1..Len(Items) :
         Items[k].t = "dict"
         => LET e == Items[k].d
                at == " at " \o PathText(k - 1)
            IN InstructionsErrorsAt(k - 1) =
                 IF "instructions" \notin DOMAIN e
                 THEN <<"Missing 'instructions' field" \o at>>
                 ELSE IF e.instructions.t # "str"
                 THEN <<"'instructions' must be a string" \o at>>
                 ELSE IF Len(e.instructions.s) >= 3001
                 THEN <<"'instructions' exceeds 3000 character limit" \o at>>
                 ELSE <<>>

C5_Witness ==
    /\ LabelingIsSeq
    /\ pc = "exit"
    /\ Len(Items) = 2
    /\ Items[1].t = "dict"
    /\ Items[2].t = "dict"
    /\ DOMAIN Items[1].d = {"label", "instructions"}
    /\ DOMAIN Items[2].d = {"label", "instructions"}
    /\ Items[1].d.label.t = "str"
    /\ Items[2].d.label.t = "str"
    /\ Items[1].d.instructions.t = "str"
    /\ Items[2].d.instructions.t = "str"
    /\ Len(Items[1].d.instructions.s) = 3000
    /\ Len(Items[2].d.instructions.s) = 3001
    /\ errors =
         <<"'instructions' exceeds 3000 character limit at \"reviews.labeling_instructions[1]\"">>

(***************************************************************************)
(* C6                                                                      *)
(***************************************************************************)
\* the Python type name of a parsed value that is neither str nor dict
ExpectedTypeName(v) ==
    CASE v.t = "int" -> "int"
      [] v.t = "float" -> "float"
      [] v.t = "bool" -> "bool"
      [] v.t = "NoneType" -> "NoneType"
      [] v.t = "list" -> "list"

\* C6: an element that is neither a string nor a mapping gives exactly one
\* error about that element, the generic "Invalid type" message with the
\* element's type name.
C6_OtherElement ==
    (LabelingIsSeq /\ Finished)
    => \A k \in 1..Len(Items) :
         Items[k].t \notin {"str", "dict"}
         => ErrorsAt(k - 1) =
              <<"Invalid type at " \o PathText(k - 1)
                 \o ": expected object, got " \o ExpectedTypeName(Items[k])>>

C6_Witness ==
    /\ LabelingIsSeq
    /\ pc = "exit"
    /\ Items = <<Scalar("bool"), Scalar("NoneType")>>
    /\ errors =
         <<"Invalid type at \"reviews.labeling_instructions[0]\": expected object, got bool",
           "Invalid type at \"reviews.labeling_instructions[1]\": expected object, got NoneType">>

(***************************************************************************)
(* C7                                                                      *)
(***************************************************************************)
SuccessLine == "CodeRabbit YAML configuration is valid"

IsErrorLine(l) == StartsWith(l, "  - ")

\* C7: the exit code is 0 exactly when the validator returned an empty list
\* and 1 otherwise, load failures included; on failure one line is printed
\* per error in the validator's order; the success line and an error line
\* never appear together.
C7_ExitCode ==
    /\ pc # "exit" => exitCode = -1
    /\ pc = "exit"
         => /\ exitCode \in {0, 1}
            /\ exitCode = 0 <=> (raised = "none" /\ errors = <<>>)
            /\ fs \in {"missing", "malformed"}
                 => (exitCode = 1 /\ Len(errors) = 1)
            /\ (raised = "none" /\ errors # <<>>)
                 => /\ Len(out) = Len(errors) + 2
                    /\ \A k \in 1..Len(errors) :
                         out[k + 2] = "  - " \o errors[k]
    /\ ~ \E a, b \in 1..Len(out) : out[a] = SuccessLine /\ IsErrorLine(out[b])

C7_Witness ==
    /\ pc = "exit"
    /\ exitCode = 1
    /\ raised = "none"
    /\ Len(errors) = 2
    /\ errors[1] # errors[2]
    /\ out[3] = "  - " \o errors[1]
    /\ out[4] = "  - " \o errors[2]

IsScalar(v) == v.t \in {"int", "float", "bool", "NoneType"}

\* v is a string that has key as a substring or a sequence that has the
\* string key as an element
Mentions(v, key) ==
    \/ /\ v.t = "list"
       /\ \E p \in DOMAIN v.items : v.items[p] = [t |-> "str", s |-> key]
    \/ /\ v.t = "str"
       /\ \E a \in 0..Len(v.s) :
            /\ a + Len(key) <= Len(v.s)
            /\ v.s = SubSeq(v.s, 1, a) \o key
                       \o SubSeq(v.s, a + Len(key) + 1, Len(v.s))

RECURSIVE ErrorsOfFirst(_, _)
\* the errors the first n elements of items give on their own, in order
ErrorsOfFirst(items, n) ==
    IF n = 0 THEN <<>>
    ELSE ErrorsOfFirst(items, n - 1) \o ElementErrors(n - 1, items[n])

\* C9: over a sequence every element is checked: the error list is the
\* concatenation, in index order, of the errors of each element on its own.
C9_Concatenation ==
    (LabelingIsSeq /\ pc \in {"loop", "report", "print", "exit"})
    => /\ errors = ErrorsOfFirst(Items, i)
       /\ Finished => i = Len(Items)

C9_Witness ==
    /\ LabelingIsSeq
    /\ pc = "exit"
    /\ Len(Items) = 2
    /\ Items[1] = Items[2]
    /\ Items[1].t = "dict"
    /\ Len(errors) = 4
    /\ Len(ErrorsAt(0)) = 2
    /\ Len(ErrorsAt(1)) = 2

(***************************************************************************)
(* C10                                                                     *)
(***************************************************************************)
ValidElement(e) ==
    /\ e.t = "dict"
    /\ "label" \in DOMAIN e.d
    /\ e.d.label.t = "str"
    /\ "instructions" \in DOMAIN e.d
    /\ e.d.instructions.t = "str"
    /\ Len(e.d.instructions.s) <= 3000

ValidLabeling ==
    \/ ~HasLabeling
    \/ /\ Labeling.t = "list"
       /\ \A k \in 1..Len(Items) : ValidElement(Items[k])

\* the number of elements of the labeling_instructions value: of a sequence
\* its length, of a string its characters, of a mapping its keys, none else
NumElements ==
    IF ~HasLabeling THEN 0
    ELSE CASE Labeling.t = "list" -> Len(Labeling.items)
           [] Labeling.t = "str" -> Len(Labeling.s)
           [] Labeling.t = "dict" -> Cardinality(DOMAIN Labeling.d)
           [] OTHER -> 0

\* an element without the keys the validator does not read
Stripped(e) ==
    IF e.t = "dict"
    THEN [t |-> "dict",
          d |-> [f \in DOMAIN e.d \cap {"label", "instructions"} |-> e.d[f]]]
    ELSE e

\* C10 as stated: root and reviews mappings give the empty list exactly for
\* an absent or all-valid labeling_instructions, and the number of errors
\* never exceeds twice the number of elements.
C10_Original ==
    (ReviewsIsMap /\ Finished)
    => /\ raised = "none"
       /\ errors = <<>> <=> ValidLabeling
       /\ Len(errors) <= 2 * NumElements

\* C10 amended: as stated, with the bound of twice the number of elements
\* for a labeling_instructions that is a sequence; a value that is present
\* and not a sequence gives one error.  Keys other than label and
\* instructions do not change the errors of an element.
C10_EmptyIffValid ==
    (ReviewsIsMap /\ Finished)
    => /\ raised = "none"
       /\ errors = <<>> <=> ValidLabeling
       /\ LabelingIsSeq
            => /\ Len(errors) <= 2 * Len(Items)
               /\ errors = ErrorsOfFirst([k \in 1..Len(Items) |-> Stripped(Items[k])],
                                         Len(Items))
       /\ (HasLabeling /\ ~LabelingIsSeq) => Len(errors) = 1

C10_Witness ==
    /\ LabelingIsSeq
    /\ pc = "exit"
    /\ "auto_review" \in DOMAIN doc.d.reviews.d
    /\ Len(Items) = 2
    /\ ValidElement(Items[1])
    /\ ValidElement(Items[2])
    /\ "color" \in DOMAIN Items[1].d
    /\ Len(Items[2].d.instructions.s) = 3000
    /\ errors = <<>>
    /\ exitCode = 0

====
